---- MODULE Spec2Model ----
(***************************************************************************)
(* Model of the trading application: Stock, Portfolio, StockHolding,       *)
(* Transaction and PortfolioSnapshot rows (webapp/trading/models.py) and   *)
(* the buy_stock API action (webapp/trading/views.py).                     *)
(*                                                                         *)
(* Money is a Decimal with two places in the code; every amount used here  *)
(* is a whole number of currency units, and Decimal * int, Decimal - and   *)
(* Decimal + are exact, so amounts are integers.                           *)
(*                                                                         *)
(* The store runs in autocommit: buy_stock opens no transaction.atomic     *)
(* block, so each ORM call (save, get, create) is one step of its own and  *)
(* steps of different requests interleave.                                 *)
(***************************************************************************)
EXTENDS Integers, Sequences, FiniteSets, TLC

VARIABLES
    stocks,        \* stored Stock rows: set of [symbol, current_price]
    portfolios,    \* stored Portfolio rows: owner -> balance
    holdings,      \* stored StockHolding rows: set of [id, portfolio, stock, quantity]
    transactions,  \* stored Transaction rows, in order of creation
    snapshots,     \* stored PortfolioSnapshot rows, in order of creation
    req,           \* per worker: the request it is serving and its in-memory objects
    last,          \* the call that ended most recently, until the next one starts
    pre,           \* the stored rows as they were when the latest call started
    ncalls         \* number of buy calls and snapshot calls started so far

vars == <<stocks, portfolios, holdings, transactions, snapshots, req, last, pre, ncalls>>

(***************************************************************************)
(* Bounds and inputs                                                       *)
(***************************************************************************)
\* buy calls and snapshot calls started in one run
MaxCalls == 2

Workers == {"w1", "w2"}

AAPL == <<"A", "A", "P", "L">>
aapl == <<"a", "a", "p", "l">>
GOOGL == <<"G", "O", "O", "G", "L">>
googl == <<"g", "o", "o", "g", "l">>

\* request.data values: a key may be missing (None) or carry a text
Missing == [given |-> FALSE, text |-> <<>>]
Text(s) == [given |-> TRUE, text |-> s]

Post(user, symbol, quantity) == [user |-> user, symbol |-> symbol, quantity |-> quantity]

\* the POSTs to buy_stock that are tried
Posts ==
    {Post("u1", Text(aapl), Text(<<"2">>)),
     Post("u1", Text(aapl), Text(<<"1", "0">>)),
     Post("u1", Text(aapl), Text(<<"0">>)),
     Post("u1", Text(aapl), Text(<<"-", "1">>)),
     Post("u1", Text(aapl), Text(<<"a", "b", "c">>)),
     Post("u1", Text(aapl), Missing),
     Post("u1", Missing, Text(<<"2">>)),
     Post("u1", Missing, Text(<<"a", "b", "c">>)),
     Post("u1", Text(GOOGL), Text(<<"2">>)),
     Post("u2", Text(aapl), Text(<<"2">>))}
DirectQuantities == {10}
StockSymbols == {googl}
CreatePrices == {-50, 0, 100}
UpdatePrices == {-50, 100}

(***************************************************************************)
(* str.upper() and int()                                                   *)
(***************************************************************************)
LowerChars == <<"a", "g", "l", "o", "p">>
UpperChars == <<"A", "G", "L", "O", "P">>

UpperChar(c) ==
    IF \E i \in 1..Len(LowerChars) : LowerChars[i] = c
    THEN UpperChars[CHOOSE i \in 1..Len(LowerChars) : LowerChars[i] = c]
    ELSE c

Upper(s) == [i \in 1..Len(s) |-> UpperChar(s[i])]

Digits == <<"0", "1", "2", "3", "4", "5", "6", "7", "8", "9">>

IsDigit(c) == \E i \in 1..10 : Digits[i] = c

DigitVal(c) == (CHOOSE i \in 1..10 : Digits[i] = c) - 1

RECURSIVE DigitsVal(_)
DigitsVal(s) ==
    IF s = <<>> THEN 0
    ELSE 10 * DigitsVal(SubSeq(s, 1, Len(s) - 1)) + DigitVal(s[Len(s)])

\* int(text): an optional sign and at least one digit, else ValueError
ParseInt(s) ==
    LET signed == Len(s) > 0 /\ s[1] \in {"-", "+"}
        body == IF signed THEN Tail(s) ELSE s
    IN  IF body = <<>> \/ \E i \in 1..Len(body) : ~IsDigit(body[i])
        THEN [ok |-> FALSE, value |-> 0]
        ELSE [ok |-> TRUE,
              value |-> IF signed /\ s[1] = "-" THEN 0 - DigitsVal(body) ELSE DigitsVal(body)]

(***************************************************************************)
(* Stock                                                                   *)
(***************************************************************************)
\* Stock.clean without the upper-casing
Stock_clean_keep_case(obj) ==
    [ok |-> obj.current_price > 0, obj |-> obj]

\* Stock.clean: upper-cases the symbol, then rejects a non-positive price
Stock_clean(obj) ==
    [ok |-> obj.current_price > 0,
     obj |-> [obj EXCEPT !.symbol = Upper(obj.symbol)]]

\* symbol = CharField(unique=True): the store refuses a second row with a symbol
SymbolTaken(sym) == \E s \in stocks : s.symbol = sym

\* Stock.objects.create(symbol, current_price): clean, then INSERT
StockCreate(sym, price) ==
    LET c == Stock_clean([symbol |-> sym, current_price |-> price])
    IN  /\ stocks' = IF c.ok /\ ~SymbolTaken(c.obj.symbol)
                     THEN stocks \cup {c.obj}
                     ELSE stocks
        /\ UNCHANGED <<portfolios, holdings, transactions, snapshots, req, last, pre, ncalls>>

\* stock.current_price = price; stock.save() on a stored row: clean, then UPDATE
StockUpdate(row, price) ==
    LET c == Stock_clean([row EXCEPT !.current_price = price])
    IN  /\ row \in stocks
        /\ stocks' = IF c.ok
                     THEN (stocks \ {row}) \cup {c.obj}
                     ELSE stocks
        /\ UNCHANGED <<portfolios, holdings, transactions, snapshots, req, last, pre, ncalls>>

(***************************************************************************)
(* Requests and their in-memory objects                                    *)
(***************************************************************************)
NoStock == [symbol |-> <<>>, current_price |-> 0]
NoHolding == [id |-> 0, quantity |-> 0]

StoreNow == [portfolios |-> portfolios, holdings |-> holdings, transactions |-> transactions]

\* a worker serving no request: its objects of the last request are gone
IdleReq ==
    [pc |-> "idle", via |-> "none", user |-> "u1", stock |-> NoStock, quantity |-> 0,
     balance |-> 0, holding |-> NoHolding]

NoCall ==
    [via |-> "none", stock |-> NoStock, quantity |-> 0,
     result |-> "none"]

InFlight(w) == req[w].pc # "idle"

\* PortfolioViewSet.handle_exception; ValidationError there is rest_framework's,
\* and whatever it does not name goes to the framework's handler, which answers
\* Http404 with 404 and re-raises anything that is not an API exception
handle_exception(exc) ==
    IF exc = "ObjectDoesNotExist" THEN "404"
    ELSE IF exc = "rest_framework.ValidationError" THEN "400"
    ELSE IF exc = "Http404" THEN "404"
    ELSE "500"

\* the except clause of PortfolioViewSet.buy_stock, then handle_exception
ViewResponse(exc) ==
    IF exc \in {"ValueError", "TypeError"} THEN "400" ELSE handle_exception(exc)

\* how a call that raised exc ends: an HTTP status for the view, the exception
\* itself for a direct caller of Portfolio.buy_stock
Raised(via, exc) == IF via = "view" THEN ViewResponse(exc) ELSE exc

\* the call of request r ends with result: the worker is free again
Ends(w, r, result) ==
    /\ req' = [req EXCEPT ![w] = IdleReq]
    /\ last' = [via |-> r.via, stock |-> r.stock, quantity |-> r.quantity,
                result |-> result]

(***************************************************************************)
(* Portfolio                                                               *)
(***************************************************************************)
\* can_buy_stock that never refuses
can_buy_stock_always(balance, stock, quantity) == TRUE

\* can_buy_stock that compares the balance with the price of one share
can_buy_stock_one_share(balance, stock, quantity) == balance >= stock.current_price

can_buy_stock(balance, stock, quantity) ==
    LET total_cost == stock.current_price * quantity
    IN  balance >= total_cost

\* PortfolioViewSet.buy_stock up to the call of portfolio.buy_stock: parse the
\* input, look the stock and the portfolio up, check affordability. The stock
\* row is read before the portfolio row and no buy writes it, so the two reads
\* are taken as one step. u2 is a user without a portfolio.
ViewBuyStock(w, user, symbol, quantity) ==
    LET q == ParseInt(quantity.text)
        found == {s \in stocks : s.symbol = Upper(symbol.text)}
        stock == CHOOSE s \in found : TRUE
        r0 == [IdleReq EXCEPT !.via = "view", !.user = user]
        r1 == [r0 EXCEPT !.quantity = q.value]
        r2 == [r1 EXCEPT !.stock = stock]
    IN  /\ ~InFlight(w)
        /\ ncalls < MaxCalls
        /\ ncalls' = ncalls + 1
        /\ pre' = StoreNow
        /\ IF ~quantity.given THEN Ends(w, r0, ViewResponse("TypeError"))
           ELSE IF ~q.ok THEN Ends(w, r0, ViewResponse("ValueError"))
           ELSE IF ~symbol.given THEN Ends(w, r1, ViewResponse("AttributeError"))
           ELSE IF found = {} THEN Ends(w, r1, ViewResponse("Http404"))
           ELSE IF user \notin DOMAIN portfolios
                THEN Ends(w, r2, ViewResponse("AttributeError"))
           ELSE IF ~can_buy_stock(portfolios[user], stock, q.value)
                THEN Ends(w, r2, "400")
           ELSE /\ req' = [req EXCEPT ![w] =
                       [r2 EXCEPT !.pc = "buy", !.balance = portfolios[user]]]
                /\ last' = NoCall
        /\ UNCHANGED <<stocks, portfolios, holdings, transactions, snapshots>>

\* a direct caller (the tests): portfolio.buy_stock(stock, quantity) on stored rows
DirectBuyStock(w, stock, quantity) ==
    /\ ~InFlight(w)
    /\ ncalls < MaxCalls
    /\ stock \in stocks
    /\ ncalls' = ncalls + 1
    /\ req' = [req EXCEPT ![w] =
          [IdleReq EXCEPT !.pc = "buy", !.via = "model", !.user = "u1",
                          !.quantity = quantity, !.stock = stock,
                          !.balance = portfolios["u1"]]]
    /\ last' = NoCall
    /\ pre' = StoreNow
    /\ UNCHANGED <<stocks, portfolios, holdings, transactions, snapshots>>

\* Portfolio.buy_stock, first part: the check, the debit of self.balance, self.save()
BuyDebit(w) ==
    LET r == req[w]
        total_cost == r.stock.current_price * r.quantity
    IN  /\ r.pc = "buy"
        /\ IF ~can_buy_stock(r.balance, r.stock, r.quantity)
           THEN /\ Ends(w, r, Raised(r.via, "ValidationError:Insufficient funds"))
                /\ UNCHANGED portfolios
           ELSE /\ req' = [req EXCEPT ![w].pc = "get", ![w].balance = r.balance - total_cost]
                /\ portfolios' = [portfolios EXCEPT ![r.user] = r.balance - total_cost]
                /\ last' = last
        /\ UNCHANGED <<stocks, holdings, transactions, snapshots, pre, ncalls>>

(***************************************************************************)
(* StockHolding                                                            *)
(***************************************************************************)
HoldingsOf(portfolio, symbol) ==
    {h \in holdings : h.portfolio = portfolio /\ h.stock = symbol}

\* the store without the unique_together constraint
unique_together_off(portfolio, symbol) == TRUE

\* unique_together = ['portfolio', 'stock']: the store refuses a second row
unique_together(portfolio, symbol) == HoldingsOf(portfolio, symbol) = {}

\* get_or_create, the get: the stored row when there is one
HoldingGet(w) ==
    LET r == req[w]
        found == HoldingsOf(r.user, r.stock.symbol)
        h == CHOOSE x \in found : TRUE
    IN  /\ r.pc = "get"
        /\ req' = [req EXCEPT ![w] =
              IF found = {} THEN [r EXCEPT !.pc = "create"]
              ELSE [r EXCEPT !.pc = "save", !.holding = [id |-> h.id, quantity |-> h.quantity]]]
        /\ UNCHANGED <<stocks, portfolios, holdings, transactions, snapshots, last, pre, ncalls>>

\* get_or_create, the create with defaults quantity 0; on IntegrityError (a row
\* appeared since the get) it gets that row instead
HoldingCreate(w) ==
    LET r == req[w]
        found == HoldingsOf(r.user, r.stock.symbol)
        h == CHOOSE x \in found : TRUE
        id == Cardinality(holdings) + 1
    IN  /\ r.pc = "create"
        /\ IF unique_together(r.user, r.stock.symbol)
           THEN /\ holdings' = holdings \cup
                      {[id |-> id, portfolio |-> r.user, stock |-> r.stock.symbol, quantity |-> 0]}
                /\ req' = [req EXCEPT ![w].pc = "save",
                                      ![w].holding = [id |-> id, quantity |-> 0]]
           ELSE /\ holdings' = holdings
                /\ req' = [req EXCEPT ![w].pc = "save",
                                      ![w].holding = [id |-> h.id, quantity |-> h.quantity]]
        /\ UNCHANGED <<stocks, portfolios, transactions, snapshots, last, pre, ncalls>>

\* StockHolding.clean
StockHolding_clean(quantity) == quantity >= 0

\* holding.quantity += quantity; holding.save(): clean, then UPDATE of the row
HoldingSave(w) ==
    LET r == req[w]
        quantity == r.holding.quantity + r.quantity
    IN  /\ r.pc = "save"
        /\ IF StockHolding_clean(quantity)
           THEN /\ holdings' = {IF h.id = r.holding.id THEN [h EXCEPT !.quantity = quantity]
                                ELSE h : h \in holdings}
                /\ req' = [req EXCEPT ![w].pc = "record", ![w].holding.quantity = quantity]
                /\ last' = last
           ELSE /\ holdings' = holdings
                /\ Ends(w, r, Raised(r.via, "ValidationError:Quantity cannot be negative"))
        /\ UNCHANGED <<stocks, portfolios, transactions, snapshots, pre, ncalls>>

(***************************************************************************)
(* Transaction                                                             *)
(***************************************************************************)
\* Transaction.save without the override: total_amount stays as given
Transaction_save_plain(t) == t

\* Transaction.save: total_amount = price * Decimal(quantity)
Transaction_save(t) == [t EXCEPT !.total_amount = t.price * t.quantity]

\* quantity = PositiveIntegerField(): the store's CHECK (quantity >= 0), which
\* makes the INSERT raise IntegrityError
PositiveIntegerField(n) == n >= 0

\* Transaction.objects.create(...), the last statement of Portfolio.buy_stock
TransactionCreate(w) ==
    LET r == req[w]
        t == Transaction_save([user |-> r.user, stock |-> r.stock.symbol,
                               transaction_type |-> "BUY", quantity |-> r.quantity,
                               price |-> r.stock.current_price, total_amount |-> 0])
    IN  /\ r.pc = "record"
        /\ IF PositiveIntegerField(t.quantity)
           THEN /\ transactions' = Append(transactions, t)
                /\ Ends(w, r, IF r.via = "view" THEN "200" ELSE "returned")
           ELSE /\ transactions' = transactions
                /\ Ends(w, r, Raised(r.via, "IntegrityError"))
        /\ UNCHANGED <<stocks, portfolios, holdings, snapshots, pre, ncalls>>

(***************************************************************************)
(* PortfolioSnapshot                                                       *)
(***************************************************************************)
RECURSIVE SumValue(_)
SumValue(hs) ==
    IF hs = {} THEN 0
    ELSE LET h == CHOOSE x \in hs : TRUE
             stock == CHOOSE s \in stocks : s.symbol = h.stock
         IN  stock.current_price * h.quantity + SumValue(hs \ {h})

\* calculate_total_value that leaves the holdings out
calculate_total_value_cash(owner, balance) == balance

\* Portfolio.calculate_total_value on an instance whose balance is balance
calculate_total_value(owner, balance) ==
    LET holdings_value == SumValue({h \in holdings : h.portfolio = owner})
    IN  balance + holdings_value

\* Portfolio.create_daily_snapshot on an instance just loaded from the store
CreateDailySnapshot(owner) ==
    LET balance == portfolios[owner]
    IN  /\ owner \in DOMAIN portfolios
        /\ ncalls < MaxCalls
        /\ ncalls' = ncalls + 1
        /\ snapshots' = Append(snapshots,
              [portfolio |-> owner,
               total_value |-> calculate_total_value(owner, balance),
               cash_balance |-> balance])
        /\ UNCHANGED <<stocks, portfolios, holdings, transactions, req, last, pre>>

(***************************************************************************)
(* Specifications                                                          *)
(***************************************************************************)
\* tests/model.py setUp: user with a portfolio of 1000.00, stock AAPL at 150.00
Init ==
    /\ stocks = {[symbol |-> AAPL, current_price |-> 150]}
    /\ portfolios = [u \in {"u1"} |-> 1000]
    /\ holdings = {}
    /\ transactions = <<>>
    /\ snapshots = <<>>
    /\ req = [w \in Workers |-> IdleReq]
    /\ last = NoCall
    /\ pre = [portfolios |-> [u \in {"u1"} |-> 1000], holdings |-> {}, transactions |-> <<>>]
    /\ ncalls = 0

Start(w) ==
    \/ \E p \in Posts : ViewBuyStock(w, p.user, p.symbol, p.quantity)
    \/ \E s \in stocks, q \in DirectQuantities : DirectBuyStock(w, s, q)

Step(w) ==
    \/ BuyDebit(w)
    \/ HoldingGet(w)
    \/ HoldingCreate(w)
    \/ HoldingSave(w)
    \/ TransactionCreate(w)

Other ==
    \/ \E s \in StockSymbols, p \in CreatePrices : StockCreate(s, p)
    \/ \E s \in stocks, p \in UpdatePrices : StockUpdate(s, p)
    \/ \E u \in DOMAIN portfolios : CreateDailySnapshot(u)

\* requests are served concurrently
Next ==
    \/ \E w \in Workers : Start(w)
    \/ \E w \in Workers : Step(w)
    \/ Other

Spec == Init /\ [][Next]_vars

\* one call at a time: a call starts only when no other is in flight
NextSeq ==
    \/ \E w \in Workers : (\A o \in Workers : ~InFlight(o)) /\ Start(w)
    \/ \E w \in Workers : Step(w)
    \/ Other

SpecSeq == Init /\ [][NextSeq]_vars

(***************************************************************************)
(* Properties                                                              *)
(***************************************************************************)
Succeeded == last.result \in {"200", "returned"}

InsufficientFunds == "ValidationError:Insufficient funds"

\* shares of symbol held by owner according to the rows hs
QuantityHeld(hs, owner, symbol) ==
    LET rows == {h \in hs : h.portfolio = owner /\ h.stock = symbol}
    IN  IF rows = {} THEN 0 ELSE (CHOOSE h \in rows : TRUE).quantity

\* the three effects of the call that ended last, against the rows before it
BuyApplied ==
    LET cost == last.stock.current_price * last.quantity
        symbol == last.stock.symbol
        n == Len(pre.transactions)
    IN  /\ portfolios["u1"] = pre.portfolios["u1"] - cost
        /\ Cardinality({h \in holdings : h.portfolio = "u1" /\ h.stock = symbol}) = 1
        /\ QuantityHeld(holdings, "u1", symbol)
              = QuantityHeld(pre.holdings, "u1", symbol) + last.quantity
        /\ Len(transactions) = n + 1
        /\ SubSeq(transactions, 1, n) = pre.transactions
        /\ transactions[n + 1] =
              [user |-> "u1", stock |-> symbol, transaction_type |-> "BUY",
               quantity |-> last.quantity, price |-> last.stock.current_price,
               total_amount |-> cost]

\* C1: a buy_stock call with a positive quantity and balance >= price * quantity
\* succeeds, and a call that succeeded has debited the balance by exactly
\* price * quantity, raised the holding by exactly quantity (from 0 when there was
\* none) and appended exactly one BUY transaction with that price, quantity and
\* total_amount = price * quantity.
C1_BuyEffects ==
    /\ (Succeeded /\ last.quantity > 0) => BuyApplied
    /\ (/\ last.via = "model"
        /\ last.quantity > 0
        /\ pre.portfolios["u1"] >= last.stock.current_price * last.quantity)
          => last.result = "returned"

\* two buys of 2 at 150 from 1000: the holding was created, then raised
C1_Witness ==
    /\ last.result = "200"
    /\ last.quantity = 2
    /\ portfolios["u1"] = 400
    /\ QuantityHeld(holdings, "u1", AAPL) = 4

\* C2: a buy_stock call with balance < price * quantity fails with the
\* insufficient-funds error and leaves the balance, every holding and the
\* transactions as they were.
C2_InsufficientFunds ==
    /\ (/\ last.via = "model"
        /\ pre.portfolios["u1"] < last.stock.current_price * last.quantity)
          => last.result = InsufficientFunds
    /\ last.result = InsufficientFunds
          => /\ StoreNow = pre
             /\ pre.portfolios["u1"] < last.stock.current_price * last.quantity

\* after buy(2) at 150 from 1000, buy(10) has failed and the balance is 700
C2_Witness ==
    /\ last.result = InsufficientFunds
    /\ last.quantity = 10
    /\ last.stock.current_price = 150
    /\ portfolios["u1"] = 700
    /\ Len(transactions) = 1

\* C3: after a buy_stock call has ended, either all three of its effects are
\* stored or none is.
C3_AllOrNothing ==
    last.via # "none" => (StoreNow = pre \/ BuyApplied)

\* C4: every debit a buy stores is affordable against the balance stored at that
\* moment and lowers it by exactly the cost: no buy passes the check against a
\* stale balance, and no debit is lost.
C4_NoLostUpdate ==
    [][\A w \in Workers :
          (/\ req[w].pc = "buy"
           /\ req'[w].pc = "get"
           /\ \A o \in Workers : InFlight(o) /\ req[o].quantity > 0)
          => LET cost == req[w].stock.current_price * req[w].quantity
             IN  /\ cost <= portfolios[req[w].user]
                 /\ portfolios'[req[w].user] = portfolios[req[w].user] - cost]_vars

\* C5: a POST whose quantity is not a number, zero or negative never reaches
\* Portfolio.buy_stock, is answered 400 and leaves the stored rows unchanged.
C5_InvalidOrderRejected ==
    /\ \A w \in Workers : (InFlight(w) /\ req[w].via = "view") => req[w].quantity > 0
    /\ (last.via = "view" /\ last.quantity <= 0)
          => (last.result = "400" /\ StoreNow = pre)

\* C6: every POST to buy_stock ends with 200, 400 or 404, and one that did not
\* end with 200 leaves the stored rows unchanged.
C6_StructuredOutcome ==
    last.via = "view"
       => /\ last.result \in {"200", "400", "404"}
          /\ last.result # "200" => StoreNow = pre

\* C7: the stored balance of a portfolio is never negative.
C7_BalanceNonNegative ==
    \A u \in DOMAIN portfolios : portfolios[u] >= 0

\* two buys of 10 at 100 from 1000 were both recorded and the balance is 0
C7_Witness ==
    /\ portfolios["u1"] = 0
    /\ Len(transactions) = 2

HoldingsWellFormed ==
    /\ \A h \in holdings : h.quantity >= 0
    /\ \A g, h \in holdings : (g.portfolio = h.portfolio /\ g.stock = h.stock) => g = h

\* C8: there is at most one holding per (portfolio, stock) and no holding has a
\* negative quantity; a holding.save() that would store a negative quantity
\* raises and leaves the stored holdings unchanged.
C8_Holdings ==
    /\ HoldingsWellFormed
    /\ [][/\ HoldingsWellFormed'
          /\ \A w \in Workers :
                (/\ req[w].pc = "save"
                 /\ req'[w] # req[w]
                 /\ req[w].holding.quantity + req[w].quantity < 0)
                => /\ holdings' = holdings
                   /\ last'.result \in {"500", "ValidationError:Quantity cannot be negative"}]_vars

\* a buy of -1 with no shares held: the save was refused, the row still holds 0
C8_Witness ==
    /\ last.quantity = -1
    /\ last.result = "500"
    /\ \E h \in holdings : h.stock = AAPL /\ h.quantity = 0

\* C9: every stored stock has a symbol without lower-case letters and a price
\* above 0.
C9_StoredStocks ==
    \A s \in stocks :
        /\ s.current_price > 0
        /\ \A i \in 1..Len(s.symbol) : s.symbol[i] \notin {"a", "g", "l", "o", "p"}

\* "googl" was saved and is stored as "GOOGL"
C9_Witness ==
    [symbol |-> GOOGL, current_price |-> 100] \in stocks

\* value of the shares of symbol that owner holds, at the stored price
ValueHeld(owner, symbol) ==
    LET rows == {s \in stocks : s.symbol = symbol}
    IN  IF rows = {} THEN 0
        ELSE (CHOOSE s \in rows : TRUE).current_price * QuantityHeld(holdings, owner, symbol)

\* C10: a create_daily_snapshot call appends exactly one snapshot, whose
\* cash_balance is the balance and whose total_value is the balance plus
\* quantity * current price over the holdings, and changes nothing else.
C10_Snapshot ==
    [][snapshots' # snapshots
         => LET n == Len(snapshots)
                snap == snapshots'[n + 1]
            IN  /\ Len(snapshots') = n + 1
                /\ SubSeq(snapshots', 1, n) = snapshots
                /\ snap.cash_balance = portfolios[snap.portfolio]
                /\ snap.total_value = portfolios[snap.portfolio]
                      + ValueHeld(snap.portfolio, AAPL) + ValueHeld(snap.portfolio, GOOGL)
                /\ UNCHANGED <<portfolios, holdings, transactions, stocks>>]_vars

\* a snapshot taken while shares are held
C10_Witness ==
    /\ Len(snapshots) = 1
    /\ snapshots[1].total_value > snapshots[1].cash_balance

\* BUY transactions of owner, in order of creation
BuysOf(owner) ==
    SelectSeq(transactions, LAMBDA t : t.user = owner /\ t.transaction_type = "BUY")

RECURSIVE SumAmount(_)
SumAmount(ts) ==
    IF ts = <<>> THEN 0 ELSE ts[1].total_amount + SumAmount(Tail(ts))

RECURSIVE SumQuantity(_, _)
SumQuantity(ts, symbol) ==
    IF ts = <<>> THEN 0
    ELSE (IF ts[1].stock = symbol THEN ts[1].quantity ELSE 0) + SumQuantity(Tail(ts), symbol)

\* C11: when every buy_stock call made so far has ended, the starting balance
\* (1000) equals the balance plus the total_amount of the owner's BUY
\* transactions, and for each stock the shares held equal the quantities of the
\* owner's BUY transactions for it.
C11_LedgerReconciles ==
    (\A w \in Workers : ~InFlight(w))
       => /\ 1000 = portfolios["u1"] + SumAmount(BuysOf("u1"))
          /\ \A symbol \in {AAPL, GOOGL} :
                QuantityHeld(holdings, "u1", symbol) = SumQuantity(BuysOf("u1"), symbol)

====
